---- MODULE Spec2Model ----
(***************************************************************************)
(* avbroot: src/format/compression.rs                                      *)
(*                                                                         *)
(* Lz4LegacyEncoder (buffering, block emission, finish, drop),             *)
(* CompressedWriter (dispatch over None / Gzip / Lz4Legacy) and            *)
(* CompressedReader (magic sniffing, rewind, dispatch over the decoders).  *)
(*                                                                         *)
(* Bytes are integers 0..255, byte strings are sequences.  The 8 MiB block *)
(* buffer is scaled to BufLen bytes.  The sink of the LZ4 legacy encoder   *)
(* may fail on any write_all call: never under Spec, up to MaxFail times   *)
(* under SpecFault.                                                        *)
(***************************************************************************)
EXTENDS Integers, Sequences, FiniteSets, TLC

\* Length of Lz4LegacyEncoder.buf (vec![0u8; 8 * 1024 * 1024] in the code), scaled.
BufLen == 2

\* Largest number of sink failures in one run.
MaxFail == 1

\* Largest number of bytes a caller-supplied source holds around its start position.
MaxPad == 1

\* Bytes the caller writes: the two bytes of the gzip magic, so that written
\* data may or may not begin with it.
DataBytes == {31, 139}

\* Bytes of caller-supplied sources at offsets 0..3 from the start position: the
\* byte either magic has there, a byte a magic has at another offset, and 7.
SrcBytes(i) ==
    CASE i = 1 -> {31, 2, 139, 7}
      [] i = 2 -> {139, 33, 31, 7}
      [] i = 3 -> {76, 24, 7}
      [] i = 4 -> {24, 76, 7}

\* Largest write call, and the cap on the bytes accepted in one run.
MaxWrite == BufLen + 1
MaxTotal == BufLen + 2

\* Iterations after which a call of write that is still looping is cut off:
\* more than any input of the model needs.
MaxIters == MaxTotal + 1

\* Largest read request.
MaxRead == BufLen + 1

GZIP_MAGIC == <<31, 139>>

\* Mutant: the magic with its bytes in the opposite order.
LZ4_LEGACY_MAGIC_reversed == <<24, 76, 33, 2>>

LZ4_LEGACY_MAGIC == <<2, 33, 76, 24>>

Min(a, b) == IF a < b THEN a ELSE b

\* All byte strings over S of length at most n.
SeqsUpTo(S, n) == UNION {[1..k -> S] : k \in 0..n}

Zeros(n) == [i \in 1..n |-> 0]

RECURSIVE Sum(_)
Sum(s) == IF s = <<>> THEN 0 ELSE Head(s) + Sum(Tail(s))

IsPrefix(p, s) == Len(p) <= Len(s) /\ SubSeq(s, 1, Len(p)) = p

DropN(s, n) == SubSeq(s, n + 1, Len(s))

\* WriteBytesExt::write_u32::<LittleEndian>: the four bytes of n, least significant first.
U32LE(n) == << n % 256, (n \div 256) % 256, (n \div 65536) % 256, (n \div 16777216) % 256 >>

\* Inverse reading of a 4-byte little-endian length.
FromU32LE(b) == b[1] + 256 * b[2] + 65536 * b[3] + 16777216 * b[4]

(***************************************************************************)
(* The LZ4 block primitive.  For inputs shorter than 13 bytes an LZ4 block *)
(* is a single literal run: a token whose high nibble is the literal       *)
(* length, then the literals.  The empty input gives the one-byte block    *)
(* <<0>>.                                                                  *)
(***************************************************************************)
compress(b) ==
    IF Len(b) < 15 THEN <<Len(b) * 16>> \o b
                   ELSE <<240, Len(b) - 15>> \o b

\* Decoding of one block of literals; ok is FALSE on a malformed block.
decompress(c) ==
    IF c = <<>> THEN [ok |-> FALSE, data |-> <<>>]
    ELSE IF c[1] % 16 # 0 THEN [ok |-> FALSE, data |-> <<>>]
    ELSE IF c[1] < 240
         THEN [ok |-> Len(c) = 1 + c[1] \div 16, data |-> Tail(c)]
         ELSE IF Len(c) >= 2 /\ c[2] < 255
              THEN [ok |-> Len(c) = 2 + 15 + c[2], data |-> DropN(c, 2)]
              ELSE [ok |-> FALSE, data |-> <<>>]

VARIABLES
    pc,        \* "init", "writing", "closed", "source", "reading", "eof", "failed"
    wfmt,      \* variant of CompressedWriter: "NoWriter", "None", "Gzip", "Lz4Legacy"
    sink,      \* bytes delivered to the underlying sink W
    writer,    \* Lz4LegacyEncoder.writer is Some
    buf,       \* Lz4LegacyEncoder.buf
    n_filled,  \* Lz4LegacyEncoder.n_filled
    gz,        \* GzEncoder: header written, input taken so far
    budget,    \* number of times the sink may still fail
    panicked,  \* an unwrap() met None
    accepted,  \* the bytes for which a write call returned Ok, in call order
    res,       \* the last writer call and what it returned
    src,       \* bytes of the source R given to CompressedReader::new
    pos,       \* read cursor of the source
    start,     \* cursor of the source when CompressedReader::new was last called
    raw,       \* raw_if_unknown of the last CompressedReader::new
    rvar,      \* variant of CompressedReader: "NoReader", "None", "Gzip", "Lz4"
    rres,      \* result of the last CompressedReader::new
    rbuf,      \* decoded bytes the decoder holds and has not handed out yet
    decoded,   \* the decoder has pulled its input from the source
    out        \* bytes handed out by read calls since the reader was made

wvars == <<wfmt, sink, writer, buf, n_filled, gz, budget, panicked, accepted, res>>
rvars == <<src, pos, start, raw, rvar, rres, rbuf, decoded, out>>
vars == <<pc, wvars, rvars>>

(***************************************************************************)
(* Lz4LegacyEncoder.  An encoder value e is the record of its fields, the  *)
(* bytes its sink holds, the failure count, and the outcome of the call    *)
(* just made (ok).  Each operation gives the set of its possible outcomes: *)
(* one per behaviour of the sink.                                          *)
(***************************************************************************)
Enc == [sink |-> sink, writer |-> writer, buf |-> buf, n_filled |-> n_filled,
        budget |-> budget, panicked |-> panicked, ok |-> TRUE, iters |-> 0]

\* Write::write_all on the sink: all of data is delivered, or the call fails
\* and delivers nothing.
write_all(e, data) ==
    {[e EXCEPT !.sink = @ \o data, !.ok = TRUE]}
    \cup
    (IF e.budget > 0 THEN {[e EXCEPT !.budget = @ - 1, !.ok = FALSE]} ELSE {})

\* Mutant: the magic is not written.
Lz4LegacyEncoder_new_no_magic(e) ==
    {[e EXCEPT !.writer = TRUE, !.buf = Zeros(BufLen), !.n_filled = 0, !.ok = TRUE]}

\* Lz4LegacyEncoder::new: the magic goes to the sink first.
Lz4LegacyEncoder_new(e) ==
    {IF r.ok THEN [r EXCEPT !.writer = TRUE, !.buf = Zeros(BufLen), !.n_filled = 0]
             ELSE r :
        r \in write_all(e, LZ4_LEGACY_MAGIC)}

U32BE(n) == << (n \div 16777216) % 256, (n \div 65536) % 256, (n \div 256) % 256, n % 256 >>

\* Mutant: the length prefix is written big-endian.
write_block_big_endian(e, force) ==
    IF ~force /\ e.n_filled < Len(e.buf)
    THEN {[e EXCEPT !.ok = TRUE]}
    ELSE LET compressed == compress(SubSeq(e.buf, 1, e.n_filled)) IN
         IF ~e.writer
         THEN {[e EXCEPT !.panicked = TRUE, !.ok = FALSE]}
         ELSE UNION {IF a.ok
                        THEN {IF b.ok THEN [b EXCEPT !.n_filled = 0] ELSE b :
                                 b \in write_all(a, compressed)}
                        ELSE {a} :
                        a \in write_all(e, U32BE(Len(compressed)))}

\* Mutant: a forced flush of an empty buffer writes nothing.
write_block_skip_empty(e, force) ==
    IF (~force /\ e.n_filled < Len(e.buf)) \/ e.n_filled = 0
    THEN {[e EXCEPT !.ok = TRUE]}
    ELSE LET compressed == compress(SubSeq(e.buf, 1, e.n_filled)) IN
         IF ~e.writer
         THEN {[e EXCEPT !.panicked = TRUE, !.ok = FALSE]}
         ELSE UNION {IF a.ok
                        THEN {IF b.ok THEN [b EXCEPT !.n_filled = 0] ELSE b :
                                 b \in write_all(a, compressed)}
                        ELSE {a} :
                        a \in write_all(e, U32LE(Len(compressed)))}

\* Mutant: the buffer is not marked empty after its block was written.
write_block_no_reset(e, force) ==
    IF ~force /\ e.n_filled < Len(e.buf)
    THEN {[e EXCEPT !.ok = TRUE]}
    ELSE LET compressed == compress(SubSeq(e.buf, 1, e.n_filled)) IN
         IF ~e.writer
         THEN {[e EXCEPT !.panicked = TRUE, !.ok = FALSE]}
         ELSE UNION {IF a.ok THEN write_all(a, compressed) ELSE {a} :
                        a \in write_all(e, U32LE(Len(compressed)))}

\* Mutant: force is not looked at; every call emits what the buffer holds.
write_block_no_guard(e, force) ==
    LET compressed == compress(SubSeq(e.buf, 1, e.n_filled)) IN
    IF ~e.writer
    THEN {[e EXCEPT !.panicked = TRUE, !.ok = FALSE]}
    ELSE UNION {IF a.ok
                   THEN {IF b.ok THEN [b EXCEPT !.n_filled = 0] ELSE b :
                            b \in write_all(a, compressed)}
                   ELSE {a} :
                   a \in write_all(e, U32LE(Len(compressed)))}

\* Mutant: the whole buffer is compressed, not its filled part.
write_block_whole_buf(e, force) ==
    IF ~force /\ e.n_filled < Len(e.buf)
    THEN {[e EXCEPT !.ok = TRUE]}
    ELSE LET compressed == compress(e.buf) IN
         IF ~e.writer
         THEN {[e EXCEPT !.panicked = TRUE, !.ok = FALSE]}
         ELSE UNION {IF a.ok
                        THEN {IF b.ok THEN [b EXCEPT !.n_filled = 0] ELSE b :
                                 b \in write_all(a, compressed)}
                        ELSE {a} :
                        a \in write_all(e, U32LE(Len(compressed)))}

\* Lz4LegacyEncoder::write_block
write_block(e, force) ==
    IF ~force /\ e.n_filled < Len(e.buf)
    THEN {[e EXCEPT !.ok = TRUE]}
    ELSE LET compressed == compress(SubSeq(e.buf, 1, e.n_filled)) IN
         IF ~e.writer
         THEN {[e EXCEPT !.panicked = TRUE, !.ok = FALSE]}
         ELSE UNION {IF a.ok
                        THEN {IF b.ok THEN [b EXCEPT !.n_filled = 0] ELSE b :
                                 b \in write_all(a, compressed)}
                        ELSE {a} :
                        a \in write_all(e, U32LE(Len(compressed)))}

\* Mutant: a failed flush is tried a second time.
drop_retry(e) ==
    IF e.writer
    THEN UNION {IF r.ok THEN {r} ELSE {[q EXCEPT !.ok = TRUE] : q \in write_block(r, TRUE)} :
                   r \in write_block(e, TRUE)}
    ELSE {[e EXCEPT !.ok = TRUE]}

\* Mutant: no Drop implementation.
drop_nothing(e) == {[e EXCEPT !.ok = TRUE]}

\* Drop for Lz4LegacyEncoder: a forced flush while the sink slot is Some; the
\* result of the flush is discarded.
drop(e) ==
    IF e.writer THEN {[r EXCEPT !.ok = TRUE] : r \in write_block(e, TRUE)}
                ELSE {[e EXCEPT !.ok = TRUE]}

\* Mutant: finish hands the sink back without emptying the slot, so the drop
\* of the consumed encoder flushes again.
finish_no_take(e) ==
    UNION {IF r.ok THEN IF r.writer
                        THEN {[d EXCEPT !.writer = FALSE] : d \in drop(r)}
                        ELSE {[r EXCEPT !.panicked = TRUE, !.ok = FALSE]}
                   ELSE IF r.panicked THEN {r}
                        ELSE {[d EXCEPT !.ok = FALSE] : d \in drop(r)} :
              r \in write_block(e, TRUE)}

\* Lz4LegacyEncoder::finish.  finish takes self by value: when write_block
\* fails, `?` returns and self is dropped with the slot still Some, so drop
\* runs; when it succeeds the slot is taken and the drop of self does nothing.
finish(e) ==
    UNION {IF r.ok THEN IF r.writer
                        THEN drop([r EXCEPT !.writer = FALSE])
                        ELSE {[r EXCEPT !.panicked = TRUE, !.ok = FALSE]}
                   ELSE IF r.panicked THEN {r}
                        ELSE {[d EXCEPT !.ok = FALSE] : d \in drop(r)} :
              r \in write_block(e, TRUE)}

\* Mutant: write forces out whatever it has copied.
RECURSIVE write_forced(_, _)
write_forced(e, b) ==
    IF b = <<>>
    THEN {[e EXCEPT !.ok = TRUE]}
    ELSE LET to_write == Min(Len(b), Len(e.buf) - e.n_filled)
             copied == [e EXCEPT
                          !.buf = [i \in 1..Len(e.buf) |->
                                     IF i > e.n_filled /\ i <= e.n_filled + to_write
                                        THEN b[i - e.n_filled] ELSE e.buf[i]],
                          !.n_filled = @ + to_write]
         IN UNION {IF r.ok THEN write_forced(r, DropN(b, to_write)) ELSE {r} :
                      r \in write_block(copied, TRUE)}

\* Mutant: the input is copied to the front of the buffer, not behind the
\* bytes it already holds.
RECURSIVE write_overwrite(_, _)
write_overwrite(e, b) ==
    IF b = <<>>
    THEN {[e EXCEPT !.ok = TRUE]}
    ELSE LET to_write == Min(Len(b), Len(e.buf) - e.n_filled)
             copied == [e EXCEPT
                          !.buf = [i \in 1..Len(e.buf) |->
                                     IF i <= to_write THEN b[i] ELSE e.buf[i]],
                          !.n_filled = @ + to_write]
         IN UNION {IF r.ok THEN write_overwrite(r, DropN(b, to_write)) ELSE {r} :
                      r \in write_block(copied, FALSE)}

\* <Lz4LegacyEncoder as Write>::write: the copy loop.  e.iters counts the
\* iterations of the loop in this call; a call still looping after MaxIters
\* iterations is cut off and reported as an error, so that a loop that does
\* not end shows as a count above every length of input.
RECURSIVE write(_, _)
write(e, b) ==
    IF b = <<>>
    THEN {[e EXCEPT !.ok = TRUE]}
    ELSE IF e.iters > MaxIters
    THEN {[e EXCEPT !.ok = FALSE]}
    ELSE LET to_write == Min(Len(b), Len(e.buf) - e.n_filled)
             copied == [e EXCEPT
                          !.buf = [i \in 1..Len(e.buf) |->
                                     IF i > e.n_filled /\ i <= e.n_filled + to_write
                                        THEN b[i - e.n_filled] ELSE e.buf[i]],
                          !.n_filled = @ + to_write,
                          !.iters = @ + 1]
         IN UNION {IF r.ok THEN write(r, DropN(b, to_write)) ELSE {r} :
                      r \in write_block(copied, FALSE)}

\* Mutant: the length of the last chunk copied is returned.
write_total_last_chunk(e, b, r) ==
    IF r.ok THEN Min(Len(b), Len(e.buf) - e.n_filled) ELSE 0

\* The value write returns in Ok: total, the length of the input taken
\* before the loop.  e is the encoder before the call, r after it.
write_total(e, b, r) == IF r.ok THEN Len(b) ELSE 0

\* Mutant: flush forces the block out.
flush_forced(e) == write_block(e, TRUE)

\* <Lz4LegacyEncoder as Write>::flush
flush(e) == write_block(e, FALSE)

(***************************************************************************)
(* The gzip codec (flate2) is a trusted primitive outside this file.  It   *)
(* is modelled by its container: a 10-byte header that starts with the     *)
(* gzip magic, one stored deflate block, and the 8-byte trailer (checksum  *)
(* and length).  The encoder writes the header with the first write or     *)
(* flush and the rest when it is finished; its sink does not fail here.    *)
(***************************************************************************)
GzipHeader == GZIP_MAGIC \o <<8, 0, 0, 0, 0, 0, 0, 255>>

\* Stand-in for CRC-32: a checksum of the data.
crc(d) == Sum(d) % 65536

Deflate(d) ==
    <<1, Len(d) % 256, Len(d) \div 256, 255 - (Len(d) % 256), 255 - (Len(d) \div 256)>> \o d

GzTrailer(d) == U32LE(crc(d)) \o U32LE(Len(d))

\* GzEncoder::write and GzEncoder::flush: g is [hdr, data], s the sink bytes.
GzEncoder_write(g, s, b) ==
    [gz |-> [hdr |-> TRUE, data |-> g.data \o b],
     sink |-> IF g.hdr THEN s ELSE s \o GzipHeader]

\* GzEncoder::finish, and the drop of a GzEncoder, which finishes it too.
GzEncoder_finish(g, s) ==
    [gz |-> [hdr |-> TRUE, data |-> <<>>],
     sink |-> (IF g.hdr THEN s ELSE s \o GzipHeader) \o Deflate(g.data) \o GzTrailer(g.data)]

\* GzDecoder: one member, read from the front of s.
GzDecode(s) ==
    IF Len(s) < 15 \/ SubSeq(s, 1, 4) # <<31, 139, 8, 0>> \/ s[11] # 1
    THEN [ok |-> FALSE, data |-> <<>>]
    ELSE LET n == s[12] + 256 * s[13]
             d == SubSeq(s, 16, 15 + n)
         IN IF s[14] = 255 - s[12] /\ s[15] = 255 - s[13]
               /\ Len(s) >= 15 + n + 8
               /\ SubSeq(s, 16 + n, 23 + n) = GzTrailer(d)
            THEN [ok |-> TRUE, data |-> d]
            ELSE [ok |-> FALSE, data |-> <<>>]

(***************************************************************************)
(* The LZ4 frame decoder (lz4_flex FrameDecoder) on a legacy frame: the    *)
(* magic, then records of a 4-byte little-endian length L and L bytes of   *)
(* one block, until the source ends.  Also a trusted primitive.            *)
(***************************************************************************)
\* The payloads of the records of s, in order; ok is FALSE on a malformed record.
RECURSIVE Records(_)
Records(s) ==
    IF Len(s) < 4 THEN [ok |-> TRUE, blocks |-> <<>>]
    ELSE IF s[4] >= 128 THEN [ok |-> FALSE, blocks |-> <<>>]
    ELSE LET L == FromU32LE(s)
             d == decompress(SubSeq(s, 5, 4 + L))
             rest == Records(DropN(s, 4 + L))
         IN IF L = 0 THEN [ok |-> TRUE, blocks |-> <<>>]
            ELSE IF Len(s) < 4 + L \/ ~d.ok \/ Len(d.data) > BufLen \/ ~rest.ok
                 THEN [ok |-> FALSE, blocks |-> <<>>]
                 ELSE [ok |-> TRUE, blocks |-> <<d.data>> \o rest.blocks]

RECURSIVE Concat(_)
Concat(ss) == IF ss = <<>> THEN <<>> ELSE Head(ss) \o Concat(Tail(ss))

Lz4FrameDecode(s) ==
    IF s = <<>> THEN [ok |-> TRUE, data |-> <<>>]
    ELSE IF ~IsPrefix(LZ4_LEGACY_MAGIC, s) THEN [ok |-> FALSE, data |-> <<>>]
    ELSE LET r == Records(DropN(s, 4))
         IN [ok |-> r.ok, data |-> IF r.ok THEN Concat(r.blocks) ELSE <<>>]

(***************************************************************************)
(* CompressedReader::new on source s with its cursor at p.  read_exact of  *)
(* 4 bytes, then rewind (seek to offset 0), then the comparison with the   *)
(* magics.  When fewer than 4 bytes are left read_exact fails, `?` returns *)
(* before the rewind, and how far the cursor moved is unspecified.         *)
\* Mutant: no rewind.
CompressedReader_new_no_rewind(s, p, raw_if_unknown) ==
    IF Len(s) - p < 4
    THEN {[res |-> "IoError", variant |-> "NoReader", pos |-> q] : q \in p..Len(s)}
    ELSE LET magic == SubSeq(s, p + 1, p + 4) IN
         IF SubSeq(magic, 1, 2) = GZIP_MAGIC
            THEN {[res |-> "Ok", variant |-> "Gzip", pos |-> p + 4]}
         ELSE IF magic = LZ4_LEGACY_MAGIC
            THEN {[res |-> "Ok", variant |-> "Lz4", pos |-> p + 4]}
         ELSE IF raw_if_unknown
            THEN {[res |-> "Ok", variant |-> "None", pos |-> p + 4]}
         ELSE {[res |-> "UnknownFormat", variant |-> "NoReader", pos |-> p + 4]}

\* Mutant: no rewind on the raw fallback.
CompressedReader_new_raw_not_rewound(s, p, raw_if_unknown) ==
    IF Len(s) - p < 4
    THEN {[res |-> "IoError", variant |-> "NoReader", pos |-> q] : q \in p..Len(s)}
    ELSE LET magic == SubSeq(s, p + 1, p + 4) IN
         IF SubSeq(magic, 1, 2) = GZIP_MAGIC
            THEN {[res |-> "Ok", variant |-> "Gzip", pos |-> 0]}
         ELSE IF magic = LZ4_LEGACY_MAGIC
            THEN {[res |-> "Ok", variant |-> "Lz4", pos |-> 0]}
         ELSE IF raw_if_unknown
            THEN {[res |-> "Ok", variant |-> "None", pos |-> p + 4]}
         ELSE {[res |-> "UnknownFormat", variant |-> "NoReader", pos |-> 0]}

\* Mutant: read in place of read_exact; a short source leaves the rest of the
\* 4-byte array zero.
CompressedReader_new_short_read(s, p, raw_if_unknown) ==
    LET magic == SubSeq(SubSeq(s, p + 1, Len(s)) \o Zeros(4), 1, 4) IN
    IF SubSeq(magic, 1, 2) = GZIP_MAGIC
       THEN {[res |-> "Ok", variant |-> "Gzip", pos |-> 0]}
    ELSE IF magic = LZ4_LEGACY_MAGIC
       THEN {[res |-> "Ok", variant |-> "Lz4", pos |-> 0]}
    ELSE IF raw_if_unknown
       THEN {[res |-> "Ok", variant |-> "None", pos |-> 0]}
    ELSE {[res |-> "UnknownFormat", variant |-> "NoReader", pos |-> 0]}

\* Mutant: only the first byte of the gzip magic is compared.
CompressedReader_new_gzip_first_byte(s, p, raw_if_unknown) ==
    IF Len(s) - p < 4
    THEN {[res |-> "IoError", variant |-> "NoReader", pos |-> q] : q \in p..Len(s)}
    ELSE LET magic == SubSeq(s, p + 1, p + 4) IN
         IF magic[1] = GZIP_MAGIC[1]
            THEN {[res |-> "Ok", variant |-> "Gzip", pos |-> 0]}
         ELSE IF magic = LZ4_LEGACY_MAGIC
            THEN {[res |-> "Ok", variant |-> "Lz4", pos |-> 0]}
         ELSE IF raw_if_unknown
            THEN {[res |-> "Ok", variant |-> "None", pos |-> 0]}
         ELSE {[res |-> "UnknownFormat", variant |-> "NoReader", pos |-> 0]}

(***************************************************************************)
CompressedReader_new(s, p, raw_if_unknown) ==
    IF Len(s) - p < 4
    THEN {[res |-> "IoError", variant |-> "NoReader", pos |-> q] : q \in p..Len(s)}
    ELSE LET magic == SubSeq(s, p + 1, p + 4) IN
         IF SubSeq(magic, 1, 2) = GZIP_MAGIC
            THEN {[res |-> "Ok", variant |-> "Gzip", pos |-> 0]}
         ELSE IF magic = LZ4_LEGACY_MAGIC
            THEN {[res |-> "Ok", variant |-> "Lz4", pos |-> 0]}
         ELSE IF raw_if_unknown
            THEN {[res |-> "Ok", variant |-> "None", pos |-> 0]}
         ELSE {[res |-> "UnknownFormat", variant |-> "NoReader", pos |-> 0]}

\* CompressedReader::format
CompressedReader_format(v) ==
    CASE v = "None" -> "None"
      [] v = "Gzip" -> "Gzip"
      [] v = "Lz4"  -> "Lz4Legacy"

\* CompressedWriter::format
CompressedWriter_format(v) ==
    CASE v = "None"      -> "None"
      [] v = "Gzip"      -> "Gzip"
      [] v = "Lz4Legacy" -> "Lz4Legacy"

\* The sources a caller opens directly: up to MaxPad bytes before the start
\* position, up to 4 bytes of any kind from it, and up to MaxPad bytes more.
Sources ==
    {[bytes |-> a \o m \o z, at |-> Len(a)] :
        a \in SeqsUpTo({7}, MaxPad),
        m \in {x \in SeqsUpTo({2, 7, 24, 31, 33, 76, 139}, 4) :
                  \A i \in 1..Len(x) : x[i] \in SrcBytes(i)},
        z \in SeqsUpTo({7}, MaxPad)}

Start ==
    /\ pc = "init"
    /\ wfmt = "NoWriter"
    /\ sink = <<>>
    /\ writer = FALSE
    /\ buf = Zeros(BufLen)
    /\ n_filled = 0
    /\ gz = [hdr |-> FALSE, data |-> <<>>]
    /\ panicked = FALSE
    /\ accepted = <<>>
    /\ res = [op |-> "none", ok |-> TRUE, n |-> 0]
    /\ src = <<>>
    /\ pos = 0
    /\ start = 0
    /\ raw = FALSE
    /\ rvar = "NoReader"
    /\ rres = "none"
    /\ rbuf = <<>>
    /\ decoded = FALSE
    /\ out = <<>>

\* The sink never fails.
Init == Start /\ budget = 0

\* The sink may fail up to MaxFail times.
InitFault == Start /\ budget = MaxFail

\* The fields of an encoder value become the state.
SetEnc(r) ==
    /\ sink' = r.sink
    /\ writer' = r.writer
    /\ buf' = r.buf
    /\ n_filled' = r.n_filled
    /\ budget' = r.budget
    /\ panicked' = r.panicked

\* CompressedWriter::new(sink, format)
NewWriter(f) ==
    /\ pc = "init"
    /\ UNCHANGED <<gz, accepted, rvars>>
    /\ IF f = "Lz4Legacy"
       THEN \E r \in Lz4LegacyEncoder_new(Enc) :
               /\ SetEnc(r)
               /\ wfmt' = IF r.ok THEN "Lz4Legacy" ELSE "NoWriter"
               /\ pc' = IF r.ok THEN "writing" ELSE "closed"
               /\ res' = [op |-> "new", ok |-> r.ok, n |-> 0]
       ELSE /\ wfmt' = f
            /\ pc' = "writing"
            /\ res' = [op |-> "new", ok |-> TRUE, n |-> 0]
            /\ UNCHANGED <<sink, writer, buf, n_filled, budget, panicked>>

\* <CompressedWriter as Write>::write(b)
Write(b) ==
    /\ pc = "writing"
    /\ ~panicked
    /\ Len(accepted) + Len(b) <= MaxTotal
    /\ UNCHANGED <<pc, wfmt, rvars>>
    /\ CASE wfmt = "Lz4Legacy" ->
              \E r \in write(Enc, b) :
                 /\ SetEnc(r)
                 /\ accepted' = IF r.ok THEN accepted \o b ELSE accepted
                 /\ res' = [op |-> "write", ok |-> r.ok, n |-> write_total(Enc, b, r)]
                 /\ UNCHANGED gz
         [] wfmt = "Gzip" ->
              LET r == GzEncoder_write(gz, sink, b) IN
                 /\ gz' = r.gz
                 /\ sink' = r.sink
                 /\ accepted' = accepted \o b
                 /\ res' = [op |-> "write", ok |-> TRUE, n |-> Len(b)]
                 /\ UNCHANGED <<writer, buf, n_filled, budget, panicked>>
         [] wfmt = "None" ->
              \* W::write may take fewer bytes than it is given.
              \E n \in Min(1, Len(b))..Len(b) :
                 /\ sink' = sink \o SubSeq(b, 1, n)
                 /\ accepted' = accepted \o SubSeq(b, 1, n)
                 /\ res' = [op |-> "write", ok |-> TRUE, n |-> n]
                 /\ UNCHANGED <<writer, buf, n_filled, budget, panicked, gz>>

\* <CompressedWriter as Write>::flush
Flush ==
    /\ pc = "writing"
    /\ ~panicked
    /\ UNCHANGED <<pc, wfmt, accepted, rvars>>
    /\ CASE wfmt = "Lz4Legacy" ->
              \E r \in flush(Enc) :
                 /\ SetEnc(r)
                 /\ res' = [op |-> "flush", ok |-> r.ok, n |-> 0]
                 /\ UNCHANGED gz
         [] wfmt = "Gzip" ->
              LET r == GzEncoder_write(gz, sink, <<>>) IN
                 /\ gz' = r.gz
                 /\ sink' = r.sink
                 /\ res' = [op |-> "flush", ok |-> TRUE, n |-> 0]
                 /\ UNCHANGED <<writer, buf, n_filled, budget, panicked>>
         [] wfmt = "None" ->
                 /\ res' = [op |-> "flush", ok |-> TRUE, n |-> 0]
                 /\ UNCHANGED <<sink, writer, buf, n_filled, budget, panicked, gz>>

\* CompressedWriter::finish, with the drop of the consumed encoder.
Finish ==
    /\ pc = "writing"
    /\ ~panicked
    /\ pc' = "closed"
    /\ UNCHANGED <<wfmt, accepted, rvars>>
    /\ CASE wfmt = "Lz4Legacy" ->
              \E r \in finish(Enc) :
                 /\ SetEnc(r)
                 /\ res' = [op |-> "finish", ok |-> r.ok, n |-> 0]
                 /\ UNCHANGED gz
         [] wfmt = "Gzip" ->
              LET r == GzEncoder_finish(gz, sink) IN
                 /\ gz' = r.gz
                 /\ sink' = r.sink
                 /\ res' = [op |-> "finish", ok |-> TRUE, n |-> 0]
                 /\ UNCHANGED <<writer, buf, n_filled, budget, panicked>>
         [] wfmt = "None" ->
                 /\ res' = [op |-> "finish", ok |-> TRUE, n |-> 0]
                 /\ UNCHANGED <<sink, writer, buf, n_filled, budget, panicked, gz>>

\* The CompressedWriter goes out of scope without finish.
Drop ==
    /\ pc = "writing"
    /\ ~panicked
    /\ pc' = "closed"
    /\ UNCHANGED <<wfmt, accepted, rvars>>
    /\ CASE wfmt = "Lz4Legacy" ->
              \E r \in drop(Enc) :
                 /\ SetEnc(r)
                 /\ res' = [op |-> "drop", ok |-> r.ok, n |-> 0]
                 /\ UNCHANGED gz
         [] wfmt = "Gzip" ->
              LET r == GzEncoder_finish(gz, sink) IN
                 /\ gz' = r.gz
                 /\ sink' = r.sink
                 /\ res' = [op |-> "drop", ok |-> TRUE, n |-> 0]
                 /\ UNCHANGED <<writer, buf, n_filled, budget, panicked>>
         [] wfmt = "None" ->
                 /\ res' = [op |-> "drop", ok |-> TRUE, n |-> 0]
                 /\ UNCHANGED <<sink, writer, buf, n_filled, budget, panicked, gz>>

\* After finish has returned the sink, or after the writer was dropped, the
\* caller takes the bytes the sink holds as a source, cursor at offset 0.
OpenSink ==
    /\ pc = "closed"
    /\ res.op \in {"finish", "drop"}
    /\ res.ok
    /\ pc' = "source"
    /\ src' = sink
    /\ pos' = 0
    /\ UNCHANGED <<wvars, start, raw, rvar, rres, rbuf, decoded, out>>

\* The caller has a source of its own, with its cursor somewhere in it.
OpenSource(s) ==
    /\ pc = "init"
    /\ pc' = "source"
    /\ src' = s.bytes
    /\ pos' = s.at
    /\ UNCHANGED <<wvars, start, raw, rvar, rres, rbuf, decoded, out>>

\* CompressedReader::new(source, raw_if_unknown)
ReaderNew(raw_if_unknown) ==
    /\ pc = "source"
    /\ \E o \in CompressedReader_new(src, pos, raw_if_unknown) :
          /\ pos' = o.pos
          /\ rvar' = o.variant
          /\ rres' = o.res
          /\ pc' = IF o.res = "Ok" THEN "reading" ELSE "source"
    /\ start' = pos
    /\ raw' = raw_if_unknown
    /\ rbuf' = <<>>
    /\ decoded' = FALSE
    /\ out' = <<>>
    /\ UNCHANGED <<wvars, src>>

\* What the decoder of variant v makes of the source from cursor p on.
Decode(v, s, p) ==
    CASE v = "Gzip" -> GzDecode(DropN(s, p))
      [] v = "Lz4"  -> Lz4FrameDecode(DropN(s, p))

\* <CompressedReader as Read>::read with a buffer of n bytes.  The pass-through
\* variant reads the source itself; a decoder pulls its input from the source
\* on the first read and hands the decoded bytes out from its own buffer.
Read(n) ==
    /\ pc = "reading"
    /\ UNCHANGED <<wvars, src, start, raw, rvar, rres>>
    /\ IF rvar = "None"
       THEN LET k == Min(n, Len(src) - pos) IN
            /\ out' = out \o SubSeq(src, pos + 1, pos + k)
            /\ pos' = pos + k
            /\ pc' = IF k = 0 THEN "eof" ELSE "reading"
            /\ UNCHANGED <<rbuf, decoded>>
       ELSE LET d == IF decoded THEN [ok |-> TRUE, data |-> rbuf] ELSE Decode(rvar, src, pos)
                k == Min(n, Len(d.data))
            IN
            /\ decoded' = TRUE
            /\ pos' = IF decoded THEN pos ELSE Len(src)
            /\ rbuf' = DropN(d.data, k)
            /\ out' = out \o SubSeq(d.data, 1, k)
            /\ pc' = IF ~d.ok THEN "failed" ELSE IF k = 0 THEN "eof" ELSE "reading"

\* CompressedReader::into_inner: the caller has the source back.
IntoInner ==
    /\ pc = "reading"
    /\ out = <<>>
    /\ ~decoded
    /\ pc' = "source"
    /\ rvar' = "NoReader"
    /\ rbuf' = <<>>
    /\ decoded' = FALSE
    /\ UNCHANGED <<wvars, src, pos, start, raw, rres, out>>

Next ==
    \/ \E f \in {"None", "Gzip", "Lz4Legacy"} : NewWriter(f)
    \/ pc = "writing" /\ \E b \in SeqsUpTo(DataBytes, MaxWrite) : Write(b)
    \/ Flush
    \/ Finish
    \/ Drop
    \/ OpenSink
    \/ pc = "init" /\ \E s \in Sources : OpenSource(s)
    \/ \E r \in BOOLEAN : ReaderNew(r)
    \/ \E n \in 1..MaxRead : Read(n)
    \/ IntoInner

Spec == Init /\ [][Next]_vars

\* The operations of the writer alone.
NextWriter ==
    \/ \E f \in {"None", "Gzip", "Lz4Legacy"} : NewWriter(f)
    \/ pc = "writing" /\ \E b \in SeqsUpTo(DataBytes, MaxWrite) : Write(b)
    \/ Flush
    \/ Finish
    \/ Drop

\* The writer over a sink that may fail.
SpecFault == InitFault /\ [][NextWriter]_vars

(***************************************************************************)
(* Vocabulary of the claims.                                               *)
(***************************************************************************)
\* One block record of the legacy container: length prefix, then the block.
Record(payload) == U32LE(Len(compress(payload))) \o compress(payload)

\* The payloads of the block records the sink holds after the magic.
SinkBlocks == Records(DropN(sink, 4))

\* The writer was an Lz4LegacyEncoder and finish() returned Ok.
Lz4Finished == wfmt = "Lz4Legacy" /\ res.op = "finish" /\ res.ok

\* CompressedReader::new has returned and nothing has been read since.
JustDetected == rres # "none" /\ out = <<>> /\ ~decoded

\* The 4 bytes the last CompressedReader::new sniffed (when there were 4).
Sniffed == SubSeq(src, start + 1, start + 4)

StartsWithMagic(b) ==
    \/ (Len(b) >= 2 /\ b[1] = 31 /\ b[2] = 139)
    \/ (Len(b) >= 4 /\ SubSeq(b, 1, 4) = <<2, 33, 76, 24>>)

(***************************************************************************)
(* C1.  Round trip: what is written through a CompressedWriter and         *)
(* finished is what a CompressedReader opened on the sink's bytes reads,   *)
(* up to the end of the stream.                                            *)
(***************************************************************************)
\* C1 as stated, for every format and every byte string: once the writer is
\* finished, opening the sink's bytes succeeds, no read fails, and at the end
\* of the stream the bytes read are the bytes written.
C1_RoundTripEveryFormat ==
    (res.op = "finish" /\ res.ok /\ rres # "none") =>
        /\ rres = "Ok"
        /\ pc # "failed"
        /\ IsPrefix(out, accepted)
        /\ (pc = "eof" => out = accepted)

\* The cases in which the round trip holds: Gzip and Lz4Legacy always; None
\* when the reader is opened with raw_if_unknown and the written bytes are at
\* least 4 and begin with neither magic.
C1_Applies ==
    \/ wfmt \in {"Gzip", "Lz4Legacy"}
    \/ (wfmt = "None" /\ raw /\ Len(accepted) >= 4 /\ ~StartsWithMagic(accepted))

\* C1, amended: in those cases opening succeeds, no read fails, the bytes read
\* so far are a prefix of the bytes written, and at the end of the stream they
\* are exactly the bytes written.
C1_RoundTrip ==
    (res.op = "finish" /\ res.ok /\ rres # "none" /\ C1_Applies) =>
        /\ rres = "Ok"
        /\ pc # "failed"
        /\ IsPrefix(out, accepted)
        /\ (pc = "eof" => out = accepted)

C1_Witness ==
    /\ Lz4Finished
    /\ pc = "eof"
    /\ Len(accepted) > BufLen
    /\ out = accepted

(***************************************************************************)
(* C2.  Exact fill: BufLen bytes written to a fresh Lz4LegacyEncoder, then *)
(* finish().                                                               *)
(***************************************************************************)
\* C2 as stated: the sink holds the magic and exactly one block record; finish
\* adds no record with an empty payload.
C2_ExactFillOneRecord ==
    (Lz4Finished /\ Len(accepted) = BufLen) =>
        /\ sink = LZ4_LEGACY_MAGIC \o Record(accepted)
        /\ SinkBlocks.blocks = <<accepted>>

\* C2, amended: the sink holds the magic and exactly two block records: the
\* full block that write emitted, and the record of the empty payload that
\* the forced flush of finish emits.
C2_ExactFillTwoRecords ==
    (Lz4Finished /\ Len(accepted) = BufLen) =>
        /\ sink = LZ4_LEGACY_MAGIC \o Record(accepted) \o Record(<<>>)
        /\ SinkBlocks = [ok |-> TRUE, blocks |-> <<accepted, <<>>>>]

C2_Witness ==
    /\ Lz4Finished
    /\ Len(accepted) = BufLen
    /\ Len(SinkBlocks.blocks) = 2

(***************************************************************************)
(* C3.  One byte over: BufLen + 1 bytes written to a fresh                 *)
(* Lz4LegacyEncoder, in one call or several, then finish(): exactly two    *)
(* block records, of BufLen bytes and of 1 byte.                           *)
(***************************************************************************)
C3_OneByteOver ==
    (Lz4Finished /\ Len(accepted) = BufLen + 1) =>
        /\ sink = LZ4_LEGACY_MAGIC \o Record(SubSeq(accepted, 1, BufLen))
                                   \o Record(<<accepted[BufLen + 1]>>)
        /\ SinkBlocks.ok
        /\ Len(SinkBlocks.blocks) = 2
        /\ Len(SinkBlocks.blocks[1]) = BufLen
        /\ Len(SinkBlocks.blocks[2]) = 1

C3_Witness ==
    /\ Lz4Finished
    /\ Len(accepted) = BufLen + 1
    /\ Len(SinkBlocks.blocks) = 2
    /\ SinkBlocks.blocks[2] = <<139>>

(***************************************************************************)
(* C4.  No partial success: a write, flush or finish of the                *)
(* Lz4LegacyEncoder that returns an error leaves the sink's bytes, the     *)
(* fill counter and the buffered bytes as they were before the call.       *)
(***************************************************************************)
C4_FailedCallHasNoEffect ==
    [][(pc = "writing" /\ wfmt = "Lz4Legacy" /\ ~res'.ok) =>
          /\ sink' = sink
          /\ n_filled' = n_filled
          /\ SubSeq(buf', 1, n_filled') = SubSeq(buf, 1, n_filled)]_vars

C7_DecisionTable ==
    (rres # "none" /\ Len(src) - start >= 4 /\ ~(pc = "source" /\ rres = "Ok")) =>
        LET m == Sniffed IN
        IF m[1] = 31 /\ m[2] = 139
           THEN rres = "Ok" /\ rvar = "Gzip" /\ CompressedReader_format(rvar) = "Gzip"
        ELSE IF m = <<2, 33, 76, 24>>
           THEN rres = "Ok" /\ rvar = "Lz4" /\ CompressedReader_format(rvar) = "Lz4Legacy"
        ELSE IF raw
           THEN rres = "Ok" /\ rvar = "None" /\ CompressedReader_format(rvar) = "None"
        ELSE rres = "UnknownFormat" /\ rvar = "NoReader" /\ pc = "source"

C7_Witness ==
    /\ rres = "Ok"
    /\ rvar = "Gzip"
    /\ wfmt = "NoWriter"
    /\ Sniffed = <<31, 139, 7, 7>>
    /\ ~raw

(***************************************************************************)
(* C8.  Encode, then detect: the bytes of a finished Gzip (Lz4Legacy)      *)
(* writer open as Gzip (Lz4Legacy) with either value of raw_if_unknown; a  *)
(* source of at least 4 bytes that begins with neither magic opens as None *)
(* with raw_if_unknown and is read back unchanged.                         *)
(***************************************************************************)
C8_EncodeThenDetect ==
    /\ (res.op = "finish" /\ res.ok /\ wfmt \in {"Gzip", "Lz4Legacy"} /\ rres # "none") =>
          /\ rres = "Ok"
          /\ (pc # "source" => CompressedReader_format(rvar) = CompressedWriter_format(wfmt))
    /\ (wfmt = "NoWriter" /\ JustDetected /\ start = 0 /\ raw
          /\ Len(src) >= 4 /\ ~StartsWithMagic(src)) =>
          /\ rres = "Ok"
          /\ (pc # "source" => rvar = "None")
    /\ (wfmt = "NoWriter" /\ rres = "Ok" /\ start = 0 /\ rvar = "None" /\ pc = "eof") =>
          out = src

C8_Witness ==
    /\ res.op = "finish"
    /\ wfmt = "Lz4Legacy"
    /\ rres = "Ok"
    /\ rvar = "Lz4"
    /\ ~raw
    /\ accepted # <<>>

(***************************************************************************)
(* C9.  Drop safety net: an Lz4LegacyEncoder that has taken n bytes,       *)
(* 0 < n < BufLen, and is dropped without finish() leaves the magic and    *)
(* exactly one block record, whose payload is the n bytes in order.        *)
(***************************************************************************)
C9_DropFlushes ==
    (wfmt = "Lz4Legacy" /\ res.op = "drop" /\ Len(accepted) > 0 /\ Len(accepted) < BufLen) =>
        /\ sink = LZ4_LEGACY_MAGIC \o Record(accepted)
        /\ SinkBlocks = [ok |-> TRUE, blocks |-> <<accepted>>]

C9_Witness ==
    /\ wfmt = "Lz4Legacy"
    /\ res.op = "drop"
    /\ Len(accepted) = BufLen - 1
    /\ SinkBlocks.blocks = <<accepted>>

(***************************************************************************)
(* C10.  Finish on an empty stream: the sink holds the magic 02 21 4C 18   *)
(* and exactly one block record, of the empty payload: the length prefix 1 *)
(* (the size of the block of no bytes) and that one-byte block.            *)
(***************************************************************************)
C10_FinishEmpty ==
    (Lz4Finished /\ accepted = <<>>) =>
        /\ sink = <<2, 33, 76, 24>> \o <<1, 0, 0, 0>> \o <<0>>
        /\ Len(compress(<<>>)) = 1
        /\ SinkBlocks = [ok |-> TRUE, blocks |-> << <<>> >>]

C10_Witness ==
    /\ Lz4Finished
    /\ accepted = <<>>
    /\ Len(sink) = 9

(***************************************************************************)
(* C11.  flush never fragments a partial block: a flush() of an            *)
(* Lz4LegacyEncoder whose buffer holds fewer than BufLen bytes returns Ok, *)
(* writes nothing to the sink (it does not even call it, so no sink error  *)
(* can be consumed), and leaves n_filled and the buffered bytes as they    *)
(* were.                                                                   *)
(***************************************************************************)
FlushStep == pc = "writing" /\ wfmt = "Lz4Legacy" /\ res'.op = "flush"

C11_FlushKeepsPartialBlock ==
    [][(FlushStep /\ n_filled < BufLen) =>
          /\ res'.ok
          /\ sink' = sink
          /\ budget' = budget
          /\ n_filled' = n_filled
          /\ buf' = buf]_vars

C11_Witness ==
    /\ wfmt = "Lz4Legacy"
    /\ pc = "writing"
    /\ res.op = "flush"
    /\ res.ok
    /\ n_filled > 0
    /\ n_filled < BufLen
    /\ sink = LZ4_LEGACY_MAGIC

(***************************************************************************)
(* C12.  Wire-format preservation: after error-free writes and flushes     *)
(* and a finish() that returned Ok, the sink is the magic 02 21 4C 18      *)
(* followed by block records and nothing else; each record is a 4-byte     *)
(* little-endian length L and exactly L bytes of one LZ4 block whose       *)
(* payload is at most BufLen bytes; the payloads in order are all the      *)
(* bytes written.                                                          *)
(***************************************************************************)
\* The records of the payloads ss, one after the other.
RECURSIVE Frame(_)
Frame(ss) == IF ss = <<>> THEN <<>> ELSE Record(Head(ss)) \o Frame(Tail(ss))

C12_WireFormat ==
    Lz4Finished =>
        /\ IsPrefix(<<2, 33, 76, 24>>, sink)
        /\ SinkBlocks.ok
        /\ sink = <<2, 33, 76, 24>> \o Frame(SinkBlocks.blocks)
        /\ \A i \in 1..Len(SinkBlocks.blocks) : Len(SinkBlocks.blocks[i]) <= BufLen
        /\ Concat(SinkBlocks.blocks) = accepted

C12_Witness ==
    /\ Lz4Finished
    /\ Len(accepted) = MaxTotal
    /\ Len(SinkBlocks.blocks) = MaxTotal \div BufLen + 1
    /\ Concat(SinkBlocks.blocks) = accepted
    /\ accepted[1] # accepted[2]

(***************************************************************************)
(* C13.  write accepts the whole input.  For every reachable state of an   *)
(* Lz4LegacyEncoder and every input b: a call that returns Ok returns      *)
(* Len(b), and all of b went into the buffer or into full blocks; a call   *)
(* with Len(b) < BufLen - n_filled returns Ok, leaves the sink untouched   *)
(* (no sink error can be consumed) and only appends b to the buffered      *)
(* bytes; a call returns an error only when the sink fails while a full    *)
(* block is emitted.                                                       *)
(***************************************************************************)
\* The inputs a write call is given in the current state: up to MaxWrite bytes,
\* and no more than MaxTotal bytes over the life of the writer.
Inputs == SeqsUpTo(DataBytes, Min(MaxWrite, MaxTotal - Len(accepted)))

\* The bytes a sink gains with one record of a full block.
FullRecordLen == Len(Record(Zeros(BufLen)))

C13_WriteAcceptsAll ==
    (pc = "writing" /\ wfmt = "Lz4Legacy") =>
        \A b \in Inputs : \A r \in write(Enc, b) :
            /\ r.ok =>
                  /\ write_total(Enc, b, r) = Len(b)
                  /\ Len(b) = (r.n_filled - n_filled)
                                + BufLen * ((Len(r.sink) - Len(sink)) \div FullRecordLen)
            /\ Len(b) < BufLen - n_filled =>
                  /\ r.ok
                  /\ r.sink = sink
                  /\ r.budget = budget
                  /\ r.n_filled = n_filled + Len(b)
                  /\ SubSeq(r.buf, 1, r.n_filled) = SubSeq(buf, 1, n_filled) \o b
            /\ ~r.ok =>
                  /\ r.n_filled = BufLen
                  /\ r.budget = budget - 1

C13_Witness ==
    /\ wfmt = "Lz4Legacy"
    /\ pc = "writing"
    /\ res = [op |-> "write", ok |-> TRUE, n |-> MaxWrite]
    /\ n_filled = 1
    /\ budget = MaxFail

(***************************************************************************)
(* C14.  Short-source detection error: when fewer than 4 bytes lie between *)
(* the cursor and the end of the source, CompressedReader::new returns     *)
(* Error::IoError and no reader, whatever raw_if_unknown is and whatever   *)
(* the bytes are (the 2-byte gzip magic included).                         *)
(***************************************************************************)
C14_ShortSourceIsIoError ==
    (rres # "none" /\ Len(src) - start < 4) =>
        /\ rres = "IoError"
        /\ rvar = "NoReader"
        /\ pc = "source"

\* The gzip magic and nothing else, raw fallback enabled.
C14_Witness ==
    /\ rres = "IoError"
    /\ raw
    /\ DropN(src, start) = GZIP_MAGIC
    /\ rvar = "NoReader"

(***************************************************************************)
(* C15.  Drop-time flush errors are swallowed: the drop of an              *)
(* Lz4LegacyEncoder that was not finished completes without an error and   *)
(* without a panic whether or not the sink fails, and it makes one flush   *)
(* attempt: with no sink failure the sink gains the one record of the      *)
(* buffered bytes; with a failure exactly one failure is consumed, the     *)
(* sink gains nothing or the length prefix alone, and the buffer is left   *)
(* as it was.                                                              *)
(***************************************************************************)
DropStep == pc = "writing" /\ wfmt = "Lz4Legacy" /\ res'.op = "drop"

\* The bytes buffered and not yet emitted.
Pending == SubSeq(buf, 1, n_filled)

C15_DropSwallowsErrors ==
    [][DropStep =>
          /\ res'.ok
          /\ ~panicked'
          /\ pc' = "closed"
          /\ budget' = budget =>
                 /\ sink' = sink \o Record(Pending)
                 /\ n_filled' = 0
          /\ budget' # budget =>
                 /\ budget' = budget - 1
                 /\ sink' \in {sink, sink \o U32LE(Len(compress(Pending)))}
                 /\ n_filled' = n_filled
                 /\ buf' = buf]_vars

\* A drop whose flush failed after the length prefix was written.
C15_Witness ==
    /\ wfmt = "Lz4Legacy"
    /\ res = [op |-> "drop", ok |-> TRUE, n |-> 0]
    /\ pc = "closed"
    /\ n_filled = 1
    /\ accepted = SubSeq(buf, 1, 1)
    /\ sink = LZ4_LEGACY_MAGIC \o U32LE(Len(compress(accepted)))

(***************************************************************************)
(* C16.  Fill-counter invariant: in every reachable state of an            *)
(* Lz4LegacyEncoder 0 <= n_filled <= BufLen (the buffer keeps its length); *)
(* after a write() or flush() that returned Ok, n_filled < BufLen.         *)
(* The second part fails when the sink can fail: a write that fills the    *)
(* buffer and fails to emit it leaves n_filled = BufLen, and a write of no *)
(* bytes after it returns Ok(0) without entering the loop.                 *)
(***************************************************************************)
C16_FillCounter ==
    wfmt = "Lz4Legacy" =>
        /\ Len(buf) = BufLen
        /\ n_filled \in 0..BufLen
        /\ (res.op \in {"write", "flush"} /\ res.ok) => n_filled < BufLen

(***************************************************************************)
(* C17.  Fixed block-size policy: with a sink that never fails, every      *)
(* record a write() or flush() of an Lz4LegacyEncoder adds to the sink has *)
(* a payload of exactly BufLen bytes; finish() and drop add exactly one    *)
(* record, of the n_filled < BufLen bytes buffered, and nothing is written *)
(* after it, so it is the last record of the sink.                         *)
(***************************************************************************)
C17_FixedBlockSize ==
    [][wfmt = "Lz4Legacy" =>
          IF pc = "writing"
          THEN LET old == SinkBlocks.blocks
                   new == SinkBlocks'.blocks
               IN /\ SinkBlocks'.ok
                  /\ sink' = LZ4_LEGACY_MAGIC \o Frame(new)
                  /\ IsPrefix(old, new)
                  /\ res'.op \in {"write", "flush"} =>
                         \A i \in (Len(old) + 1)..Len(new) : Len(new[i]) = BufLen
                  /\ res'.op \in {"finish", "drop"} =>
                         /\ n_filled < BufLen
                         /\ new = old \o <<Pending>>
          ELSE sink' = sink]_vars

\* A full block from write(), then the short block of finish() or drop.
C17_Witness ==
    /\ wfmt = "Lz4Legacy"
    /\ pc = "closed"
    /\ Len(SinkBlocks.blocks) = 2
    /\ Len(SinkBlocks.blocks[1]) = BufLen
    /\ Len(SinkBlocks.blocks[2]) = 1

(***************************************************************************)
(* C18.  One forced flush per lifetime, no use of an empty sink slot.      *)
(* Whether or not the sink fails: no step of an Lz4LegacyEncoder panics    *)
(* (write_block never unwraps an empty slot), and the slot is Some for as  *)
(* long as the encoder can be written to.  A finish() that returns Ok has  *)
(* emptied the slot and added exactly one record to the sink, that of the  *)
(* buffered bytes: the drop of the consumed encoder wrote nothing.  A drop *)
(* during which the sink does not fail adds exactly that one record too.   *)
(***************************************************************************)
C18_OneForcedFlush ==
    [][wfmt' = "Lz4Legacy" =>
          /\ ~panicked'
          /\ pc' = "writing" => writer'
          /\ (pc = "writing" /\ res'.op = "finish" /\ res'.ok) =>
                 /\ ~writer'
                 /\ sink' = sink \o Record(Pending)
                 /\ budget' = budget
          /\ (pc = "writing" /\ res'.op = "drop" /\ budget' = budget) =>
                 sink' = sink \o Record(Pending)]_vars

\* finish() returned Ok after an earlier write had failed.
C18_Witness ==
    /\ Lz4Finished
    /\ ~writer
    /\ ~panicked
    /\ budget < MaxFail
    /\ Len(SinkBlocks.blocks) = 1

(***************************************************************************)
(* C19.  Chunking independence: with a sink that never fails, the sink     *)
(* after finish() depends only on the concatenation of the bytes written.  *)
(* However the bytes were split across write calls, and wherever flushes   *)
(* and empty writes came between them, the sink is the one that new, a     *)
(* single write of all the bytes, and finish produce.                      *)
(***************************************************************************)
\* No encoder yet, an empty sink that never fails.
Fresh == [sink |-> <<>>, writer |-> FALSE, buf |-> Zeros(BufLen), n_filled |-> 0,
          budget |-> 0, panicked |-> FALSE, ok |-> TRUE, iters |-> 0]

\* The sinks that new(); write(b); finish() can leave.
OneCall(b) ==
    {f.sink : f \in UNION {finish(w) :
                 w \in UNION {write(n, b) : n \in Lz4LegacyEncoder_new(Fresh)}}}

C19_ChunkingIndependence ==
    Lz4Finished => OneCall(accepted) = {sink}

\* More bytes than one write call of the model takes: at least two calls.
C19_Witness ==
    /\ Lz4Finished
    /\ Len(accepted) > MaxWrite
    /\ OneCall(accepted) = {sink}
    /\ accepted[1] # accepted[Len(accepted)]

(***************************************************************************)
(* C20.  The copy loop of write terminates.  In every reachable state of   *)
(* an Lz4LegacyEncoder, n_filled = BufLen after a failed emission          *)
(* included, and for every input b, a call of write ends after at most     *)
(* Len(b) + 1 iterations: every iteration copies at least one byte, except *)
(* the first when the buffer is already full, which copies none and emits  *)
(* the block.  The call then has returned Ok, and the bytes buffered       *)
(* before it and b, in order, are the payloads of the records it emitted   *)
(* followed by the bytes buffered after it; or it has returned the error   *)
(* of the sink, one sink failure consumed.                                 *)
(***************************************************************************)
C20_WriteLoopTerminates ==
    (pc = "writing" /\ wfmt = "Lz4Legacy") =>
        \A b \in Inputs :
            LET outcomes == write(Enc, b) IN
            /\ outcomes # {}
            /\ \A r \in outcomes :
                  /\ r.iters <= Len(b) + 1
                  /\ n_filled < BufLen => r.iters <= Len(b)
                  /\ r.ok =>
                        Concat(Records(DropN(r.sink, Len(sink))).blocks)
                           \o SubSeq(r.buf, 1, r.n_filled) = Pending \o b
                  /\ ~r.ok => r.budget = budget - 1

\* A write filled the buffer and failed to emit it; from this state a call
\* whose first iteration copies nothing returns Ok.
C20_Witness ==
    /\ wfmt = "Lz4Legacy"
    /\ pc = "writing"
    /\ res = [op |-> "write", ok |-> FALSE, n |-> 0]
    /\ n_filled = BufLen
    /\ \E b \in Inputs : \E r \in write(Enc, b) :
          r.ok /\ r.iters = Len(b) + 1

====
